---- MODULE Spec2Model ----
(***************************************************************************)
(* Section-aware resume retrieval: the sectionizers                        *)
(* (KNOWLEDGE_EXTRACTOR/router.py, word_parser.py), the record builder     *)
(* (TEXT_EMBEDDING_MODEL/textEmbedding_model.py), the vector store adapter *)
(* (CHROMA_DB/collections.py), the indexing pipeline (main.py) and the     *)
(* endpoints of the server (api.py).                                       *)
(*                                                                         *)
(* Units.  A text is a sequence of one-character strings.  A distance is   *)
(* an integer number of 1e-5.  A match_percentage and a resume score are   *)
(* integer hundredths of a percent (30.00% is 3000).  min_similarity is an *)
(* integer number of 1e-5, so min_similarity * 100 is that many            *)
(* thousandths of a percent.                                               *)
(***************************************************************************)
EXTENDS Integers, Sequences, FiniteSets, TLC

VARIABLES
    sections_collection,  \* ChromaDBManager.sections_collection: the stored items
    call,                 \* the last operation run and its arguments
    result,               \* what that operation returned (or raised)
    resume_files,         \* index_directory: the files the walk found, in walk order
    outcome,              \* index_directory: what each file does when it is processed
    pre_collection,       \* index_directory: the store when the run started
    pc,                   \* index_directory: position in the function
    i,                    \* index_directory: index of the outer loop
    batch_ids,            \* index_directory: batch_ids
    j,                    \* index_directory: index of the inner loop
    processed_records,    \* index_directory: processed_records
    add_log,              \* index_directory: ids handed to add_record, in order
    extract_log,          \* index_directory: files handed to
                          \* extract_document_structured (their index), in order
    requests,             \* api: the /api/index-resumes requests and how far each got
    temp_dir              \* match_resumes: the directory of tempfile.mkdtemp on disk

vars == <<sections_collection, call, result, resume_files, outcome,
          pre_collection, pc, i, batch_ids, j, processed_records, add_log,
          extract_log, requests, temp_dir>>

index_vars == <<resume_files, outcome, pre_collection, pc, i, batch_ids, j,
                processed_records, add_log, extract_log>>

\* No temporary directory on disk.
no_temp_dir == [exists |-> FALSE, files |-> {}]

\* ------------------------------------------------------------------ bounds

MaxTopK == 4
MaxItems == 4

\* ------------------------------------------------------------ input domains

fn_index(filename) == IF filename = "a.pdf" THEN 0 ELSE 1

\* A file path is <<directory number, file name>>.  The versions of files
\* that get indexed: a.pdf of directory 1 before and after its mtime changed,
\* a file of the same name in directory 2, and another file.
FileVersions == {
    [file_path |-> <<1, "a.pdf">>, mtime |-> 1],
    [file_path |-> <<1, "a.pdf">>, mtime |-> 2],
    [file_path |-> <<2, "a.pdf">>, mtime |-> 1],
    [file_path |-> <<1, "b.pdf">>, mtime |-> 1]}

SectionOrder == <<"skills", "experience", "education">>
SectionNames == {SectionOrder[n] : n \in 1..Len(SectionOrder)}

\* The section texts an extraction hands over: three sections with text (one
\* padded with white space), one section with text and the others blank, and
\* no text at all.
Contents == {
    [skills |-> <<"x">>, experience |-> <<" ", "y", "\n">>, education |-> <<"z">>],
    [skills |-> <<"x">>, experience |-> <<" ">>, education |-> <<>>],
    [skills |-> <<" ">>, experience |-> <<>>, education |-> <<"\n">>]}

\* Distances giving 80.00%, 30.008% (rounded to 30.01%) and -20.00%; the
\* thresholds -0.3 and 0.3001 (exactly 30.01%).
Distances == {20000, 69992, 120000}
MinSimilarities == {-30000, 30010}

\* ------------------------------------------------------------------- text

Whitespace == {" ", "\n"}

RECURSIVE lstrip(_)
lstrip(t) == IF t # <<>> /\ Head(t) \in Whitespace THEN lstrip(Tail(t)) ELSE t

RECURSIVE rstrip(_)
rstrip(t) ==
    IF t # <<>> /\ t[Len(t)] \in Whitespace
    THEN rstrip(SubSeq(t, 1, Len(t) - 1))
    ELSE t

strip(t) == rstrip(lstrip(t))

RECURSIVE join(_, _)
join(sep, ts) ==
    IF ts = <<>> THEN <<>>
    ELSE IF Len(ts) = 1 THEN ts[1]
    ELSE ts[1] \o sep \o join(sep, Tail(ts))

\* sections.values(), in the order of the dict
values(sections) == [n \in 1..Len(SectionOrder) |-> sections[SectionOrder[n]]]

\* --------------------------------------------------------- record builder

\* model.encode(text): the embedding collaborator, one vector per text
encode(text) == [vector_of |-> text]

\* hashlib.md5(f"{file_path}_{last_modified}").hexdigest()[:8]
hash_id(file_path, last_modified) ==
    ((file_path[1] * 2) + fn_index(file_path[2])) * 100 + last_modified

record_id(filename, file_path, last_modified) ==
    <<filename, hash_id(file_path, last_modified)>>

None == [kind |-> "None"]
Raised(what) == [kind |-> "raise", error |-> what]

\* stat is what os.path.getmtime(file_path) does: [exists, mtime], and it raises
\* when the file does not exist; encoder_ok is FALSE when model.encode raises.
stat_of(mtime) == [exists |-> TRUE, mtime |-> mtime]
stat_missing == [exists |-> FALSE]

process_extracted_data_content_id(extracted_data, stat, encoder_ok) ==
    IF ~extracted_data.success THEN None
    ELSE
        LET sections == extracted_data.sections
            full_text == strip(join(<<"\n">>, values(sections)))
            filename == extracted_data.filename
            file_path == extracted_data.file_path
            kept == {name \in DOMAIN sections : strip(sections[name]) # <<>>}
        IN  IF ~stat.exists THEN Raised("OSError")
            ELSE IF full_text = <<>> THEN None
            ELSE IF ~encoder_ok THEN Raised("EncodeError")
            ELSE [kind |-> "record",
                  id |-> record_id(filename, file_path, Len(full_text)),
                  embedding |-> encode(full_text),
                  metadata |-> [
                      filename |-> filename,
                      full_text |-> full_text,
                      sections |-> [name \in kept |-> strip(sections[name])],
                      section_embeddings |->
                          [name \in kept |-> encode(strip(sections[name]))]]]

process_extracted_data_keep_empty(extracted_data, stat, encoder_ok) ==
    IF ~extracted_data.success THEN None
    ELSE
        LET sections == extracted_data.sections
            full_text == strip(join(<<"\n">>, values(sections)))
            filename == extracted_data.filename
            file_path == extracted_data.file_path
        IN  IF ~stat.exists THEN Raised("OSError")
            ELSE IF full_text = <<>> THEN None
            ELSE IF ~encoder_ok THEN Raised("EncodeError")
            ELSE [kind |-> "record",
                  id |-> record_id(filename, file_path, stat.mtime),
                  embedding |-> encode(full_text),
                  metadata |-> [
                      filename |-> filename,
                      full_text |-> full_text,
                      sections |-> [name \in DOMAIN sections |-> strip(sections[name])],
                      section_embeddings |->
                          [name \in DOMAIN sections |-> encode(strip(sections[name]))]]]

process_extracted_data(extracted_data, stat, encoder_ok) ==
    IF ~extracted_data.success THEN None
    ELSE
        LET sections == extracted_data.sections
            full_text == strip(join(<<"\n">>, values(sections)))
            filename == extracted_data.filename
            file_path == extracted_data.file_path
            kept == {name \in DOMAIN sections : strip(sections[name]) # <<>>}
        IN  IF ~stat.exists THEN Raised("OSError")
            ELSE IF full_text = <<>> THEN None
            ELSE IF ~encoder_ok THEN Raised("EncodeError")
            ELSE [kind |-> "record",
                  id |-> record_id(filename, file_path, stat.mtime),
                  embedding |-> encode(full_text),
                  metadata |-> [
                      filename |-> filename,
                      full_text |-> full_text,
                      sections |-> [name \in kept |-> strip(sections[name])],
                      section_embeddings |->
                          [name \in kept |-> encode(strip(sections[name]))]]]

encode_calls_all_sections(extracted_data, stat, encoder_ok) ==
    IF ~extracted_data.success THEN <<>>
    ELSE
        LET sections == extracted_data.sections
            full_text == strip(join(<<"\n">>, values(sections)))
        IN  IF ~stat.exists \/ full_text = <<>> THEN <<>>
            ELSE IF ~encoder_ok THEN <<full_text>>
            ELSE <<full_text>> \o [n \in 1..Len(SectionOrder) |->
                                        strip(sections[SectionOrder[n]])]

\* The texts process_extracted_data passes to model.encode, in call order:
\* none before the returns and the raise of lines 27-53, then full_text, then
\* the trimmed text of every section that has any.  A raising encode ends the
\* run at its first call.
encode_calls(extracted_data, stat, encoder_ok) ==
    IF ~extracted_data.success THEN <<>>
    ELSE
        LET sections == extracted_data.sections
            full_text == strip(join(<<"\n">>, values(sections)))
            clean_texts == [n \in 1..Len(SectionOrder) |->
                                strip(sections[SectionOrder[n]])]
        IN  IF ~stat.exists \/ full_text = <<>> THEN <<>>
            ELSE IF ~encoder_ok THEN <<full_text>>
            ELSE <<full_text>> \o SelectSeq(clean_texts, LAMBDA t : t # <<>>)

\* ------------------------------------------------------ vector store adapter

\* What ChromaDBManager.__init__ and the class body bind on a manager.
ManagerAttrs == {"client", "sections_collection", "add_record", "query"}

\* The items held outside the section collection: __init__ creates the
\* collection resume_sections only and add_record writes to no other.
document_collection == {}

\* collection.delete(where={"resume_id": ...})
collection_delete(collection, resume_id) ==
    {item \in collection : item.metadata.resume_id # resume_id}

\* collection.add(ids, documents, embeddings, metadatas): an id the collection
\* already holds is not inserted a second time.
collection_add(collection, items) ==
    collection \cup
        {item \in items : \A old \in collection : old.id # item.id}

section_items_keyed_by_resume(db_record) ==
    LET sections == db_record.metadata.sections
        section_embeddings == db_record.metadata.section_embeddings
    IN  {[id |-> <<db_record.id>>,
          document |-> sections[name],
          embedding |-> section_embeddings[name],
          metadata |-> [resume_id |-> db_record.id,
                        section_name |-> name,
                        filename |-> db_record.metadata.filename]] :
            name \in {n \in DOMAIN sections : strip(sections[n]) # <<>>}}

section_items(db_record) ==
    LET sections == db_record.metadata.sections
        section_embeddings == db_record.metadata.section_embeddings
    IN  {[id |-> <<db_record.id, name>>,
          document |-> sections[name],
          embedding |-> section_embeddings[name],
          metadata |-> [resume_id |-> db_record.id,
                        section_name |-> name,
                        filename |-> db_record.metadata.filename]] :
            name \in {n \in DOMAIN sections : strip(sections[n]) # <<>>}}

add_record(collection, db_record) ==
    collection_add(collection_delete(collection, db_record.id),
                   section_items(db_record))

\* add_record when the collection's delete raises: "except: pass" goes on to
\* the add with everything the collection held still in it.
add_record_delete_raised(collection, db_record) ==
    collection_add(collection, section_items(db_record))

\* The store's distance between the query embedding and a stored vector.  A
\* query embedding is modelled by its distance to every stored vector.
distance(query_embedding, item) == query_embedding[item.embedding]

\* collection.query(n_results=top_k): every list of the n nearest items in
\* ascending distance (items at equal distance come in any order).
RECURSIVE nearest(_, _, _)
nearest(collection, query_embedding, n) ==
    IF n = 0 \/ collection = {} THEN {<<>>}
    ELSE
        LET ds == {distance(query_embedding, item) : item \in collection}
            dmin == CHOOSE d \in ds : \A e \in ds : d <= e
            firsts == {item \in collection : distance(query_embedding, item) = dmin}
        IN  UNION {{<<[document |-> f.document, metadata |-> f.metadata,
                       distance |-> dmin]>> \o rest :
                        rest \in nearest(collection \ {f}, query_embedding, n - 1)} :
                    f \in firsts}

\* round(num / den) to the nearest integer; a value exactly half way goes down
\* when tie = 0 and up when tie = 1 (which of the two a float half way value
\* gives depends on its binary representation).
round(num, den, tie) ==
    LET fl == num \div den
        r == num % den
    IN  IF 2 * r < den THEN fl
        ELSE IF 2 * r > den THEN fl + 1
        ELSE fl + tie

match_percentage_of_distance(dist, tie) == round(dist, 10, tie)

\* round((1 - distance) * 100, 2)
match_percentage_of(dist, tie) == round(100000 - dist, 10, tie)

passes_threshold_strictly(match_percentage, min_similarity) ==
    match_percentage * 10 > min_similarity

\* match_percentage >= (min_similarity * 100)
passes_threshold(match_percentage, min_similarity) ==
    match_percentage * 10 >= min_similarity

RECURSIVE sum(_)
sum(scores) == IF scores = <<>> THEN 0 ELSE Head(scores) + sum(Tail(scores))

RECURSIVE query_loop_scores_all(_, _, _, _, _)
query_loop_scores_all(neighbours, min_similarity, tie, matches, resume_scores) ==
    IF neighbours = <<>> THEN [matches |-> matches, resume_scores |-> resume_scores]
    ELSE
        LET doc == Head(neighbours).document
            meta == Head(neighbours).metadata
            match_percentage == match_percentage_of(Head(neighbours).distance, tie)
            match == [resume_id |-> meta.resume_id,
                      section_name |-> meta.section_name,
                      match_percentage |-> match_percentage,
                      text |-> doc,
                      id |-> <<meta.resume_id, meta.section_name>>]
            rid == meta.resume_id
            scored == IF rid \in DOMAIN resume_scores
                      THEN [resume_scores EXCEPT ![rid] = Append(@, match_percentage)]
                      ELSE resume_scores @@ (rid :> <<match_percentage>>)
        IN  IF passes_threshold(match_percentage, min_similarity)
            THEN query_loop_scores_all(Tail(neighbours), min_similarity, tie,
                                       Append(matches, match), scored)
            ELSE query_loop_scores_all(Tail(neighbours), min_similarity, tie,
                                       matches, scored)

RECURSIVE query_loop_prepend(_, _, _, _, _)
query_loop_prepend(neighbours, min_similarity, tie, matches, resume_scores) ==
    IF neighbours = <<>> THEN [matches |-> matches, resume_scores |-> resume_scores]
    ELSE
        LET doc == Head(neighbours).document
            meta == Head(neighbours).metadata
            match_percentage == match_percentage_of(Head(neighbours).distance, tie)
            match == [resume_id |-> meta.resume_id,
                      section_name |-> meta.section_name,
                      match_percentage |-> match_percentage,
                      text |-> doc,
                      id |-> <<meta.resume_id, meta.section_name>>]
            rid == meta.resume_id
        IN  IF passes_threshold(match_percentage, min_similarity)
            THEN query_loop_prepend(Tail(neighbours), min_similarity, tie,
                            <<match>> \o matches,
                            IF rid \in DOMAIN resume_scores
                            THEN [resume_scores EXCEPT ![rid] = Append(@, match_percentage)]
                            ELSE resume_scores @@ (rid :> <<match_percentage>>))
            ELSE query_loop_prepend(Tail(neighbours), min_similarity, tie,
                            matches, resume_scores)

\* The for loop of query over zip(documents, metadatas, distances).
RECURSIVE query_loop(_, _, _, _, _)
query_loop(neighbours, min_similarity, tie, matches, resume_scores) ==
    IF neighbours = <<>> THEN [matches |-> matches, resume_scores |-> resume_scores]
    ELSE
        LET doc == Head(neighbours).document
            meta == Head(neighbours).metadata
            match_percentage == match_percentage_of(Head(neighbours).distance, tie)
            match == [resume_id |-> meta.resume_id,
                      section_name |-> meta.section_name,
                      match_percentage |-> match_percentage,
                      text |-> doc,
                      id |-> <<meta.resume_id, meta.section_name>>]
            rid == meta.resume_id
        IN  IF passes_threshold(match_percentage, min_similarity)
            THEN query_loop(Tail(neighbours), min_similarity, tie,
                            Append(matches, match),
                            IF rid \in DOMAIN resume_scores
                            THEN [resume_scores EXCEPT ![rid] = Append(@, match_percentage)]
                            ELSE resume_scores @@ (rid :> <<match_percentage>>))
            ELSE query_loop(Tail(neighbours), min_similarity, tie,
                            matches, resume_scores)

average_scores_total(resume_scores, tie) ==
    [rid \in DOMAIN resume_scores |-> sum(resume_scores[rid])]

average_scores_truncated(resume_scores, tie) ==
    [rid \in DOMAIN resume_scores |->
        sum(resume_scores[rid]) \div Len(resume_scores[rid])]

\* {rid: round(sum(scores)/len(scores), 2) for rid, scores in resume_scores.items()}
average_scores(resume_scores, tie) ==
    [rid \in DOMAIN resume_scores |->
        round(sum(resume_scores[rid]), Len(resume_scores[rid]), tie)]

\* ChromaDBManager.query, from the neighbours the collection returned.
query(neighbours, min_similarity, tie) ==
    IF neighbours = <<>> THEN [matches |-> <<>>, resume_scores |-> <<>>]
    ELSE
        LET looped == query_loop(neighbours, min_similarity, tie, <<>>, <<>>)
        IN  [matches |-> looped.matches,
             resume_scores |-> average_scores(looped.resume_scores, tie),
             query |-> "query_text"]

\* --------------------------------------------------- best-per-document loop

RECURSIVE best_per_document_last_wins(_, _)
best_per_document_last_wins(matches, best) ==
    IF matches = <<>> THEN best
    ELSE
        LET match == Head(matches)
        IN  IF "filename" \notin DOMAIN match THEN Raised("KeyError")
            ELSE
                LET fname == match.filename
                IN  IF fname \notin DOMAIN best
                       \/ match.match_percentage >= best[fname].match_percentage
                    THEN best_per_document_last_wins(Tail(matches),
                            [f \in DOMAIN best \cup {fname} |->
                                IF f = fname THEN match ELSE best[f]])
                    ELSE best_per_document_last_wins(Tail(matches), best)

\* The loop of match_resumes over results["matches"]; match["filename"] of a
\* match without that key raises KeyError.  (The name, skills, experience and
\* full_text the loop also writes into the kept match are left out.)
RECURSIVE best_per_document(_, _)
best_per_document(matches, best) ==
    IF matches = <<>> THEN best
    ELSE
        LET match == Head(matches)
        IN  IF "filename" \notin DOMAIN match THEN Raised("KeyError")
            ELSE
                LET fname == match.filename
                IN  IF fname \notin DOMAIN best
                       \/ match.match_percentage > best[fname].match_percentage
                    THEN best_per_document(Tail(matches),
                            [f \in DOMAIN best \cup {fname} |->
                                IF f = fname THEN match ELSE best[f]])
                    ELSE best_per_document(Tail(matches), best)

\* ------------------------------------------------- the store interface (Spec)

Vectors ==
    {encode(strip(c[name])) : c \in Contents, name \in SectionNames} \ {encode(<<>>)}
QueryEmbeddings == [Vectors -> Distances]

resume_ids(collection) == {item.metadata.resume_id : item \in collection}

IndexIdle ==
    /\ resume_files = <<>>
    /\ outcome = <<>>
    /\ pre_collection = {}
    /\ pc = "idle"
    /\ i = 0
    /\ batch_ids = <<>>
    /\ j = 0
    /\ processed_records = <<>>
    /\ add_log = <<>>
    /\ extract_log = <<>>

Init ==
    /\ requests = <<>>
    /\ temp_dir = no_temp_dir
    /\ sections_collection = {}
    /\ call = [op |-> "idle"]
    /\ result = None
    /\ IndexIdle

\* The server is synchronous and single-threaded: a request is taken up when
\* no other is being handled.
Idle == call.op = "idle"

\* extracted = process_extracted_data({...}, embedding_model);
\* if extracted: chroma_manager.add_record(extracted)
AddRecord(file_path, mtime, sections, delete_ok) ==
    LET extracted == process_extracted_data(
            [success |-> TRUE, filename |-> file_path[2],
             file_path |-> file_path, sections |-> sections], stat_of(mtime), TRUE)
        added == IF extracted.kind # "record" THEN sections_collection
                 ELSE IF delete_ok THEN add_record(sections_collection, extracted)
                 ELSE add_record_delete_raised(sections_collection, extracted)
    IN  /\ Idle
        /\ extracted.kind = "record"
        /\ Cardinality(added) <= MaxItems
        /\ sections_collection' = added
        /\ call' = [op |-> "add_record", record |-> extracted,
                    sections |-> sections, delete_ok |-> delete_ok]
        /\ result' = None
        /\ UNCHANGED <<index_vars, requests, temp_dir>>

QueryConsuming(query_embedding, top_k, min_similarity, tie) ==
    /\ Idle
    /\ \E neighbours \in nearest(sections_collection, query_embedding, top_k) :
        /\ call' = [op |-> "query", query_embedding |-> query_embedding,
                    top_k |-> top_k, min_similarity |-> min_similarity,
                    neighbours |-> neighbours]
        /\ result' = query(neighbours, min_similarity, tie)
        /\ sections_collection' =
                {item \in sections_collection :
                    \A n \in 1..Len(neighbours) :
                        neighbours[n].metadata # item.metadata}
    /\ UNCHANGED <<index_vars, requests, temp_dir>>

\* chroma_manager.query(job_text, job_emb, top_k, min_similarity)
Query(query_embedding, top_k, min_similarity, tie) ==
    /\ Idle
    /\ \E neighbours \in nearest(sections_collection, query_embedding, top_k) :
        /\ call' = [op |-> "query", query_embedding |-> query_embedding,
                    top_k |-> top_k, min_similarity |-> min_similarity,
                    neighbours |-> neighbours]
        /\ result' = query(neighbours, min_similarity, tie)
    /\ UNCHANGED <<sections_collection, index_vars, requests, temp_dir>>

\* chroma_manager.query called once more with the arguments of the query just
\* answered.  The index is deterministic: asked the same question about the
\* same items it returns the same list, and a float rounds as it did before.
RepeatQuery ==
    /\ call.op = "query"
    /\ \E neighbours \in
            (IF call.neighbours \in
                    nearest(sections_collection, call.query_embedding, call.top_k)
             THEN {call.neighbours}
             ELSE nearest(sections_collection, call.query_embedding, call.top_k)) :
        \E tie \in {0, 1} :
            /\ result = query(call.neighbours, call.min_similarity, tie)
            /\ call' = [op |-> "query_again",
                        query_embedding |-> call.query_embedding,
                        top_k |-> call.top_k,
                        min_similarity |-> call.min_similarity,
                        neighbours |-> neighbours,
                        previous |-> result]
            /\ result' = query(neighbours, call.min_similarity, tie)
    /\ UNCHANGED <<sections_collection, index_vars, requests, temp_dir>>

\* GET /api/resume-embedding/{resume_id}: main_chroma_manager.get_resume_embedding
\* is looked up on the manager, which binds no such attribute.
GetResumeEmbedding(resume_id) ==
    /\ Idle
    /\ call' = [op |-> "get_resume_embedding", resume_id |-> resume_id]
    /\ result' = IF "get_resume_embedding" \in ManagerAttrs
                 THEN [kind |-> "ok"]
                 ELSE Raised("AttributeError")
    /\ UNCHANGED <<sections_collection, index_vars, requests, temp_dir>>

\* match_resumes, from the query result on: the early return on no match, else
\* the reduction loop.
BestMatches ==
    /\ call.op \in {"query", "matches"}
    /\ call' = [op |-> "best_matches", matches |-> result.matches]
    /\ result' =
        IF result.matches = <<>> THEN [kind |-> "no_match"]
        ELSE LET best == best_per_document(result.matches, <<>>)
             IN  IF best = Raised("KeyError") THEN best
                 ELSE [kind |-> "ok", best_matches |-> best]
    /\ UNCHANGED <<sections_collection, index_vars, requests, temp_dir>>

\* The handler returns; the store keeps what it holds.
Return ==
    /\ call.op \in {"add_record", "query", "query_again", "get_resume_embedding",
                   "best_matches", "sectionize", "resectionize"}
    /\ call' = [op |-> "idle"]
    /\ result' = None
    /\ UNCHANGED <<sections_collection, index_vars, requests, temp_dir>>

Next ==
    \/ \E file \in FileVersions, sections \in Contents, delete_ok \in BOOLEAN :
            AddRecord(file.file_path, file.mtime, sections, delete_ok)
    \/ \E query_embedding \in QueryEmbeddings, top_k \in 1..MaxTopK,
            min_similarity \in MinSimilarities, tie \in {0, 1} :
            Query(query_embedding, top_k, min_similarity, tie)
    \/ \E file \in FileVersions :
            GetResumeEmbedding(record_id(file.file_path[2], file.file_path, file.mtime))
    \/ RepeatQuery
    \/ BestMatches
    \/ Return

Spec == Init /\ [][Next]_vars

\* ------------------------------ upserts of changed text under one record id

\* A file indexed twice with the path and mtime unchanged (so under one record
\* id) while the text taken from it differs, and another file.
UpsertFiles == {
    [file_path |-> <<1, "a.pdf">>, mtime |-> 1],
    [file_path |-> <<1, "b.pdf">>, mtime |-> 1]}

UpsertContents == {
    [skills |-> <<"x">>, experience |-> <<" ", "y", "\n">>, education |-> <<>>],
    [skills |-> <<"w">>, experience |-> <<>>, education |-> <<"z">>]}

UpsertVectors ==
    {encode(strip(c[name])) : c \in UpsertContents, name \in SectionNames}
        \ {encode(<<>>)}
UpsertQueryEmbeddings == [UpsertVectors -> {20000, 69992}]

NextUpsert ==
    \/ \E file \in UpsertFiles, sections \in UpsertContents, delete_ok \in BOOLEAN :
            AddRecord(file.file_path, file.mtime, sections, delete_ok)
    \/ \E query_embedding \in UpsertQueryEmbeddings, top_k \in 1..MaxTopK,
            min_similarity \in MinSimilarities, tie \in {0, 1} :
            Query(query_embedding, top_k, min_similarity, tie)
    \/ Return

SpecUpsert == Init /\ [][NextUpsert]_vars

\* ------------------------------------------- the reduction loop on any list

MaxMatches == 3

\* Matches as section 3 of the design describes them, with a filename.
DedupeMatches ==
    [filename : {"a.pdf", "b.pdf"}, section_name : {"skills", "experience"},
     match_percentage : {3001, 8000}]

RECURSIVE lists(_, _)
lists(S, n) ==
    IF n = 0 THEN {<<>>}
    ELSE lists(S, n - 1) \cup {Append(l, x) : l \in {m \in lists(S, n - 1) : Len(m) = n - 1}, x \in S}

InitDedupe ==
    /\ requests = <<>>
    /\ temp_dir = no_temp_dir
    /\ sections_collection = {}
    /\ call = [op |-> "matches"]
    /\ result \in {[matches |-> l] : l \in lists(DedupeMatches, MaxMatches)}
    /\ IndexIdle

SpecDedupe == InitDedupe /\ [][BestMatches \/ Return]_vars

\* ------------------------------------------- the percentage of any distance

\* Distances around 30.01% in steps of 0.001%, with the values half way
\* between two hundredths among them, and 0, 1 and 1.3.
FineDistances == (69985..69996) \cup {0, 100000, 130000}

InitPercentage ==
    /\ requests = <<>>
    /\ temp_dir = no_temp_dir
    /\ sections_collection = {}
    /\ call = [op |-> "idle"]
    /\ result = None
    /\ IndexIdle

\* match_percentage = round((1 - distance) * 100, 2) for one neighbour of a
\* query; previous is the neighbour converted before this one.
MatchPercentage(dist, tie) ==
    /\ call.op \in {"idle", "match_percentage"}
    /\ call' = [op |-> "match_percentage",
                distance |-> dist,
                previous |-> IF call.op = "idle" THEN None
                             ELSE [distance |-> call.distance,
                                   match_percentage |-> result.match_percentage]]
    /\ result' = [kind |-> "percentage",
                  match_percentage |-> match_percentage_of(dist, tie)]
    /\ UNCHANGED <<sections_collection, index_vars, requests, temp_dir>>

NextPercentage ==
    \E dist \in FineDistances, tie \in {0, 1} : MatchPercentage(dist, tie)

SpecPercentage == InitPercentage /\ [][NextPercentage]_vars

\* ------------------------------------------- the record builder on any input

\* The section texts of Contents, a document whose sections are all empty,
\* and one as a sectionizer delivers it: trimmed texts, an empty section
\* between two with text.
BuilderContents ==
    Contents \cup {[skills |-> <<>>, experience |-> <<>>, education |-> <<>>],
                   [skills |-> <<"x">>, experience |-> <<>>, education |-> <<"z">>]}

BuilderPaths == {file.file_path : file \in FileVersions}

\* What extract_document_structured hands over: a failure, or the sections.
ExtractedData ==
    {[success |-> FALSE, file_path |-> file_path, error |-> "error"] :
        file_path \in BuilderPaths}
    \cup {[success |-> TRUE, filename |-> file_path[2], file_path |-> file_path,
           sections |-> sections] :
            file_path \in BuilderPaths, sections \in BuilderContents}

\* The file as os.path.getmtime finds it: at mtime 1 or 2, or gone.
BuilderStats == {stat_of(1), stat_of(2), stat_missing}

InitBuilder ==
    /\ requests = <<>>
    /\ temp_dir = no_temp_dir
    /\ sections_collection = {}
    /\ call = [op |-> "idle"]
    /\ result = None
    /\ IndexIdle

\* db_record = process_extracted_data(extracted_data, model), run after run;
\* previous is the run before this one.
ProcessExtractedData(extracted_data, stat, encoder_ok) ==
    /\ call.op \in {"idle", "process_extracted_data"}
    /\ call' = [op |-> "process_extracted_data",
                extracted_data |-> extracted_data,
                stat |-> stat,
                encoder_ok |-> encoder_ok,
                encoded |-> encode_calls(extracted_data, stat, encoder_ok),
                previous |-> IF call.op = "idle" THEN None
                             ELSE [extracted_data |-> call.extracted_data,
                                   stat |-> call.stat,
                                   result |-> result]]
    /\ result' = process_extracted_data(extracted_data, stat, encoder_ok)
    /\ UNCHANGED <<sections_collection, index_vars, requests, temp_dir>>

NextBuilder ==
    \E extracted_data \in ExtractedData, stat \in BuilderStats,
       encoder_ok \in BOOLEAN :
        ProcessExtractedData(extracted_data, stat, encoder_ok)

SpecBuilder == InitBuilder /\ [][NextBuilder]_vars

\* ------------------------------------------------------- index_directory

batch_size == 10
MaxFiles == 11
MaxFailing == 1

\* What processing a file runs into: nothing, an extraction that reports
\* failure, an extraction without any text, os.path.getmtime raising,
\* model.encode raising, the store raising in add_record.
Outcomes == {"ok", "extract_failed", "no_text", "stat_raises", "encode_raises",
             "add_raises"}

\* The k-th file of os.walk: two files per directory.
walk_path(k) == <<(k + 1) \div 2, IF k % 2 = 1 THEN "a.pdf" ELSE "b.pdf">>

file_sections(k, what) ==
    IF what = "no_text"
    THEN [skills |-> <<" ">>, experience |-> <<>>, education |-> <<"\n">>]
    ELSE IF k % 2 = 1
    THEN [skills |-> <<"x">>, experience |-> <<" ", "y", "\n">>, education |-> <<"z">>]
    ELSE [skills |-> <<"x">>, experience |-> <<" ">>, education |-> <<>>]

\* extract_document_structured(file_path)
extract_document_structured(k, what) ==
    IF what = "extract_failed"
    THEN [success |-> FALSE, file_path |-> resume_files[k], error |-> "error"]
    ELSE [success |-> TRUE, filename |-> resume_files[k][2],
          file_path |-> resume_files[k], sections |-> file_sections(k, what)]

\* process_extracted_data(structured_data, model) on the k-th file
build_record(k, what) ==
    process_extracted_data(extract_document_structured(k, what),
                           IF what = "stat_raises" THEN stat_missing ELSE stat_of(1),
                           what # "encode_raises")

\* existing = chroma_manager.collection.get(ids=[db_record["id"]])["ids"], inside
\* try/except Exception: the manager binds no attribute collection, the
\* AttributeError is swallowed and the record counts as no duplicate.
is_duplicate(db_record) ==
    IF "collection" \in ManagerAttrs
    THEN \E item \in document_collection : item.id = db_record.id
    ELSE FALSE

\* The record an earlier run stored for the k-th file of the walk.
indexed_before(k) ==
    process_extracted_data(
        [success |-> TRUE, filename |-> walk_path(k)[2], file_path |-> walk_path(k),
         sections |-> file_sections(k, "ok")], stat_of(1), TRUE)

\* What the n files of a run do: at most `failing` of them fail.
RECURSIVE outcomes_of(_, _)
outcomes_of(n, failing) ==
    IF n = 0 THEN {<<>>}
    ELSE {Append(o, "ok") : o \in outcomes_of(n - 1, failing)}
         \cup (IF failing = 0 THEN {}
               ELSE {Append(o, what) : o \in outcomes_of(n - 1, failing - 1),
                                       what \in Outcomes \ {"ok"}})

InitIndex ==
    /\ requests = <<>>
    /\ temp_dir = no_temp_dir
    /\ \E n \in 0..MaxFiles :
        /\ resume_files = [k \in 1..n |-> walk_path(k)]
        /\ outcome \in outcomes_of(n, MaxFailing)
    /\ \E before \in {{}, {1}, {1, 2}} :
            pre_collection =
                UNION {section_items(indexed_before(k)) : k \in before}
    /\ sections_collection = pre_collection
    /\ call = [op |-> "index_directory"]
    /\ result = None
    /\ pc = "loop"
    /\ i = 1
    /\ batch_ids = <<>>
    /\ j = 0
    /\ processed_records = <<>>
    /\ add_log = <<>>
    /\ extract_log = <<>>

\* One pass of "for file_path in tqdm(resume_files)" up to the flush test.
OuterIteration ==
    /\ pc = "loop"
    /\ i <= Len(resume_files)
    /\ extract_log' = Append(extract_log, i)
    /\ LET structured_data == extract_document_structured(i, outcome[i])
           db_record == build_record(i, outcome[i])
           appended == Append(batch_ids, db_record.id)
       IN  IF ~structured_data.success \/ db_record.kind = "None"
           THEN /\ i' = i + 1
                /\ UNCHANGED <<pc, batch_ids, j, processed_records>>
           ELSE IF db_record.kind = "raise"
           THEN /\ pc' = "raised"
                /\ UNCHANGED <<i, batch_ids, j, processed_records>>
           ELSE IF is_duplicate(db_record)
           THEN /\ i' = i + 1
                /\ UNCHANGED <<pc, batch_ids, j, processed_records>>
           ELSE IF Len(appended) >= batch_size
                   \/ resume_files[i] = resume_files[Len(resume_files)]
           THEN /\ batch_ids' = appended
                /\ pc' = "collect"
                /\ j' = 1
                /\ processed_records' = <<>>
                /\ UNCHANGED i
           ELSE /\ batch_ids' = appended
                /\ i' = i + 1
                /\ UNCHANGED <<pc, j, processed_records>>
    /\ UNCHANGED <<requests, temp_dir, sections_collection, call, result, resume_files, outcome,
                   pre_collection, add_log>>

\* One pass of the inner "for file_path in resume_files" of a flush.
CollectIteration ==
    /\ pc = "collect"
    /\ j <= Len(resume_files)
    /\ extract_log' = Append(extract_log, j)
    /\ LET structured_data == extract_document_structured(j, outcome[j])
           db_record == build_record(j, outcome[j])
       IN  IF ~structured_data.success \/ db_record.kind = "None"
           THEN /\ j' = j + 1
                /\ UNCHANGED <<pc, processed_records>>
           ELSE IF db_record.kind = "raise"
           THEN /\ pc' = "raised"
                /\ UNCHANGED <<j, processed_records>>
           ELSE /\ processed_records' = Append(processed_records, [k |-> j, record |-> db_record])
                /\ j' = j + 1
                /\ UNCHANGED pc
    /\ UNCHANGED <<requests, temp_dir, sections_collection, call, result, resume_files, outcome,
                   pre_collection, i, batch_ids, add_log>>

\* The inner loop is over: go on to "for record in processed_records".
CollectDone ==
    /\ pc = "collect"
    /\ j > Len(resume_files)
    /\ pc' = "add"
    /\ j' = 1
    /\ UNCHANGED <<requests, temp_dir, sections_collection, call, result, resume_files, outcome,
                   pre_collection, i, batch_ids, processed_records, add_log, extract_log>>

\* chroma_manager.add_record(record) for one record of processed_records.
AddIteration ==
    /\ pc = "add"
    /\ j <= Len(processed_records)
    /\ add_log' = Append(add_log, processed_records[j].record.id)
    /\ IF outcome[processed_records[j].k] = "add_raises"
       THEN /\ pc' = "raised"
            /\ UNCHANGED <<sections_collection, j>>
       ELSE /\ sections_collection' =
                    add_record(sections_collection, processed_records[j].record)
            /\ j' = j + 1
            /\ UNCHANGED pc
    /\ UNCHANGED <<requests, temp_dir, call, result, resume_files, outcome, pre_collection, i,
                   batch_ids, processed_records, extract_log>>

\* The batch is stored: clear it and go on with the next file of the outer loop.
FlushDone ==
    /\ pc = "add"
    /\ j > Len(processed_records)
    /\ batch_ids' = <<>>
    /\ pc' = "loop"
    /\ i' = i + 1
    /\ UNCHANGED <<requests, temp_dir, sections_collection, call, result, resume_files, outcome,
                   pre_collection, j, processed_records, add_log, extract_log>>

\* The outer loop is over (or no file was found): index_directory returns.
IndexReturn ==
    /\ pc = "loop"
    /\ i > Len(resume_files)
    /\ pc' = "returned"
    /\ UNCHANGED <<requests, temp_dir, sections_collection, call, result, resume_files, outcome,
                   pre_collection, i, batch_ids, j, processed_records, add_log, extract_log>>

NextIndex ==
    \/ OuterIteration
    \/ CollectIteration
    \/ CollectDone
    \/ AddIteration
    \/ FlushDone
    \/ IndexReturn

SpecIndex == InitIndex /\ [][NextIndex]_vars

\* ------------------------------------------- the walk of index_directory

\* A file name is a string; Head, Tail, SubSeq, Len and \o apply to it as to
\* a sequence of characters.
Upper == <<"A", "B", "C", "D", "E", "F", "G", "H", "I", "J", "K", "L", "M",
           "N", "O", "P", "Q", "R", "S", "T", "U", "V", "W", "X", "Y", "Z">>
Lower == <<"a", "b", "c", "d", "e", "f", "g", "h", "i", "j", "k", "l", "m",
           "n", "o", "p", "q", "r", "s", "t", "u", "v", "w", "x", "y", "z">>

lower_char(c) ==
    IF \E n \in 1..Len(Upper) : Upper[n] = c
    THEN Lower[CHOOSE n \in 1..Len(Upper) : Upper[n] = c]
    ELSE c

\* str.lower()
RECURSIVE lower(_)
lower(s) == IF s = "" THEN "" ELSE lower_char(Head(s)) \o lower(Tail(s))

\* str.endswith(suffix)
endswith(s, suffix) ==
    /\ Len(s) >= Len(suffix)
    /\ SubSeq(s, Len(s) - Len(suffix) + 1, Len(s)) = suffix

SUPPORTED_EXTENSIONS == <<".pdf", ".docx", ".doc">>

is_supported_case_sensitive(file) ==
    \E n \in 1..Len(SUPPORTED_EXTENSIONS) : endswith(file, SUPPORTED_EXTENSIONS[n])

\* any(file.lower().endswith(ext) for ext in SUPPORTED_EXTENSIONS)
is_supported(file) ==
    \E n \in 1..Len(SUPPORTED_EXTENSIONS) :
        endswith(lower(file), SUPPORTED_EXTENSIONS[n])

MaxWalked == 3

\* The files os.walk can come across, as <<directory number, file name>>.
WalkedFiles ==
    {<<1, "a.pdf">>, <<1, "B.DOCX">>, <<2, "c.Doc">>,
     <<1, "notes.txt">>, <<2, "d.pdf.bak">>, <<1, "pdf">>}

\* The trees os.walk lists: no file twice.
Trees ==
    {t \in lists(WalkedFiles, MaxWalked) :
        \A n, m \in 1..Len(t) : n # m => t[n] # t[m]}

InitWalk ==
    /\ requests = <<>>
    /\ temp_dir = no_temp_dir
    /\ \E tree \in Trees :
        /\ call = [op |-> "index_directory", files |-> tree]
        /\ outcome = [k \in 1..Len(tree) |-> "ok"]
    /\ resume_files = <<>>
    /\ pre_collection = {}
    /\ sections_collection = {}
    /\ result = None
    /\ pc = "walk"
    /\ i = 1
    /\ batch_ids = <<>>
    /\ j = 0
    /\ processed_records = <<>>
    /\ add_log = <<>>
    /\ extract_log = <<>>

\* One pass of "for file in files" of the walk (i counts the files walked).
WalkIteration ==
    /\ pc = "walk"
    /\ i <= Len(call.files)
    /\ resume_files' = IF is_supported(call.files[i][2])
                       THEN Append(resume_files, call.files[i])
                       ELSE resume_files
    /\ i' = i + 1
    /\ UNCHANGED <<requests, temp_dir, sections_collection, call, result, outcome, pre_collection, pc,
                   batch_ids, j, processed_records, add_log, extract_log>>

\* The walk is over: return when no resume was found, else start the loop.
WalkDone ==
    /\ pc = "walk"
    /\ i > Len(call.files)
    /\ pc' = IF resume_files = <<>> THEN "returned" ELSE "loop"
    /\ i' = 1
    /\ UNCHANGED <<requests, temp_dir, sections_collection, call, result, resume_files, outcome,
                   pre_collection, batch_ids, j, processed_records, add_log, extract_log>>

NextWalk ==
    \/ WalkIteration
    \/ WalkDone
    \/ NextIndex

SpecWalk == InitWalk /\ [][NextWalk]_vars

\* ------------------------------------------------------- the sectionizers

\* The text of a document is a string, as a file name is.

\* k in lower
contains(s, k) ==
    \E n \in 1..(Len(s) - Len(k) + 1) : SubSeq(s, n, n + Len(k) - 1) = k

RECURSIVE str_lstrip(_)
str_lstrip(s) ==
    IF s # "" /\ Head(s) \in Whitespace THEN str_lstrip(Tail(s)) ELSE s

RECURSIVE str_rstrip(_)
str_rstrip(s) ==
    IF s # "" /\ SubSeq(s, Len(s), Len(s)) \in Whitespace
    THEN str_rstrip(SubSeq(s, 1, Len(s) - 1))
    ELSE s

\* str.strip()
str_strip(s) == str_rstrip(str_lstrip(s))

\* text.split("\n"), current being the line read so far
RECURSIVE split_lines(_, _)
split_lines(s, current) ==
    IF s = "" THEN <<current>>
    ELSE IF Head(s) = "\n" THEN <<current>> \o split_lines(Tail(s), "")
    ELSE split_lines(Tail(s), current \o Head(s))

\* "\n".join(texts)
RECURSIVE str_join(_)
str_join(texts) ==
    IF texts = <<>> THEN ""
    ELSE IF Len(texts) = 1 THEN texts[1]
    ELSE texts[1] \o "\n" \o str_join(Tail(texts))

\* The if/elif chain of DocumentRouter._local_sectionizer, in its order.
LocalGroups == <<
    [section |-> "contact_info",
     keywords |-> {"contact", "email", "phone", "linkedin", "github"}],
    [section |-> "summary",
     keywords |-> {"summary", "objective", "profile", "about"}],
    [section |-> "skills",
     keywords |-> {"skill", "tech", "tools", "stack"}],
    [section |-> "experience",
     keywords |-> {"experience", "employment", "work history",
                   "professional experience", "internship"}],
    [section |-> "education",
     keywords |-> {"education", "university", "college", "degree", "b.tech",
                   "bachelors", "masters", "phd"}],
    [section |-> "projects",
     keywords |-> {"project", "projects", "portfolio", "case study"}],
    [section |-> "certifications",
     keywords |-> {"certification", "certifications", "awards", "achievements"}]>>

LocalVocabulary == <<"contact_info", "summary", "skills", "experience",
                     "education", "projects", "certifications", "others">>

\* The if/elif chain of word_parser.extract_resume_sections, in its order.
ExternalGroups == <<
    [section |-> "skills",
     keywords |-> {"skill", "technology", "programming", "framework"}],
    [section |-> "experience",
     keywords |-> {"experience", "work", "employment", "job"}],
    [section |-> "education",
     keywords |-> {"education", "degree", "university", "college", "school"}],
    [section |-> "summary",
     keywords |-> {"summary", "profile", "objective", "about"}],
    [section |-> "contact_info",
     keywords |-> {"email", "phone", "@", "linkedin", "github"}]>>

ExternalVocabulary == <<"contact_info", "skills", "experience", "education",
                        "summary", "other">>

\* any(k in lower for k in [...])
any_keyword(group, lower_line) ==
    \E k \in group.keywords : contains(lower_line, k)

\* The section the chain leaves current on: that of the first group of the
\* chain the line matches, else the one it was.
switch(groups, lower_line, current) ==
    IF \E n \in 1..Len(groups) : any_keyword(groups[n], lower_line)
    THEN groups[CHOOSE n \in 1..Len(groups) :
                    /\ any_keyword(groups[n], lower_line)
                    /\ \A m \in 1..(n - 1) : ~any_keyword(groups[m], lower_line)].section
    ELSE current

empty_sections(vocabulary) ==
    [k \in {vocabulary[n] : n \in 1..Len(vocabulary)} |-> ""]

\* for k in sections: sections[k] = sections[k].strip()
strip_sections(sections) == [k \in DOMAIN sections |-> str_strip(sections[k])]

RECURSIVE local_loop_append_first(_, _, _)
local_loop_append_first(lines, current, sections) ==
    IF lines = <<>> THEN sections
    ELSE
        LET line == str_strip(Head(lines))
        IN  IF line = "" THEN local_loop_append_first(Tail(lines), current, sections)
            ELSE
                LET now == switch(LocalGroups, lower(line), current)
                IN  local_loop_append_first(Tail(lines), now,
                        [sections EXCEPT ![current] = @ \o line \o "\n"])

\* The for loop of _local_sectionizer over text.split("\n").
RECURSIVE local_loop(_, _, _)
local_loop(lines, current, sections) ==
    IF lines = <<>> THEN sections
    ELSE
        LET line == str_strip(Head(lines))
        IN  IF line = "" THEN local_loop(Tail(lines), current, sections)
            ELSE
                LET now == switch(LocalGroups, lower(line), current)
                IN  local_loop(Tail(lines), now,
                               [sections EXCEPT ![now] = @ \o line \o "\n"])

\* DocumentRouter._local_sectionizer(text)
local_sectionizer(text) ==
    strip_sections(
        local_loop(split_lines(text, ""), "others", empty_sections(LocalVocabulary)))

RECURSIVE external_loop_overwrite(_, _, _)
external_loop_overwrite(lines, current_section, sections) ==
    IF lines = <<>> THEN sections
    ELSE
        LET line == Head(lines)
            line_lower == str_strip(lower(line))
            now == switch(ExternalGroups, line_lower, current_section)
        IN  IF str_strip(line) # ""
            THEN external_loop_overwrite(Tail(lines), now,
                        [sections EXCEPT ![now] = line \o "\n"])
            ELSE external_loop_overwrite(Tail(lines), now, sections)

\* The for loop of extract_resume_sections over text.split('\n').
RECURSIVE external_loop(_, _, _)
external_loop(lines, current_section, sections) ==
    IF lines = <<>> THEN sections
    ELSE
        LET line == Head(lines)
            line_lower == str_strip(lower(line))
            now == switch(ExternalGroups, line_lower, current_section)
        IN  IF str_strip(line) # ""
            THEN external_loop(Tail(lines), now,
                               [sections EXCEPT ![now] = @ \o line \o "\n"])
            ELSE external_loop(Tail(lines), now, sections)

\* word_parser.extract_resume_sections(text)
extract_resume_sections(text) ==
    strip_sections(
        external_loop(split_lines(text, ""), "other", empty_sections(ExternalVocabulary)))

\* extract_document_structured: the sectionizer imported from word_parser when
\* that import succeeded (SECTIONIZER_AVAILABLE), else the local one.
sectionize(text, SECTIONIZER_AVAILABLE) ==
    IF SECTIONIZER_AVAILABLE THEN extract_resume_sections(text)
    ELSE local_sectionizer(text)

vocabulary_of(SECTIONIZER_AVAILABLE) ==
    IF SECTIONIZER_AVAILABLE THEN ExternalVocabulary ELSE LocalVocabulary

MaxLines == 3

\* Lines of a resume: a header, a line with keywords of two groups, a padded
\* line without keyword, lines only one of the sectionizers knows a keyword of,
\* and a blank line.
SectionLines ==
    {"Skills", "email skill", " Python ", "Work", "B.Tech", "", "Projects"}

SectionTexts == {str_join(ls) : ls \in lists(SectionLines, MaxLines)}

InitSectionizer ==
    /\ requests = <<>>
    /\ temp_dir = no_temp_dir
    /\ sections_collection = {}
    /\ call = [op |-> "idle"]
    /\ result = None
    /\ IndexIdle

\* sections = sectionizer(text), as extract_document_structured runs it.
Sectionize(text, SECTIONIZER_AVAILABLE) ==
    /\ Idle
    /\ call' = [op |-> "sectionize", text |-> text,
                SECTIONIZER_AVAILABLE |-> SECTIONIZER_AVAILABLE]
    /\ result' = [kind |-> "sections",
                  sections |-> sectionize(text, SECTIONIZER_AVAILABLE)]
    /\ UNCHANGED <<sections_collection, index_vars, requests, temp_dir>>

\* The sectionizer run again on the non-empty sections it returned, joined by
\* newlines in the order of its vocabulary.
Resectionize ==
    /\ call.op = "sectionize"
    /\ LET vocabulary == vocabulary_of(call.SECTIONIZER_AVAILABLE)
           outputs == [n \in 1..Len(vocabulary) |-> result.sections[vocabulary[n]]]
           text == str_join(SelectSeq(outputs, LAMBDA t : t # ""))
       IN  /\ call' = [op |-> "resectionize", text |-> text,
                       SECTIONIZER_AVAILABLE |-> call.SECTIONIZER_AVAILABLE,
                       previous |-> result.sections]
           /\ result' = [kind |-> "sections",
                         sections |-> sectionize(text, call.SECTIONIZER_AVAILABLE)]
    /\ UNCHANGED <<sections_collection, index_vars, requests, temp_dir>>

NextSectionizer ==
    \/ \E text \in SectionTexts, SECTIONIZER_AVAILABLE \in BOOLEAN :
            Sectionize(text, SECTIONIZER_AVAILABLE)
    \/ Resectionize
    \/ Return

SpecSectionizer == InitSectionizer /\ [][NextSectionizer]_vars

\* ------------------------------------ concurrent /api/index-resumes requests

MaxRequests == 2
Requests == 1..MaxRequests

\* A request whose handler has started and has not responded yet.
in_handler(r) == requests[r].pc \in {"built", "deleted", "added"}

\* index_resumes_endpoint is a coroutine (async def) that awaits nothing and
\* calls index_directory directly: once started it keeps the event loop until
\* it responds, so a handler starts only when no other is running.
loop_is_free == \A r \in Requests : ~in_handler(r)

InitConcurrent ==
    /\ requests = [r \in Requests |-> [pc |-> "pending"]]
    /\ temp_dir = no_temp_dir
    /\ sections_collection = {}
    /\ call = [op |-> "serve"]
    /\ result = None
    /\ IndexIdle

\* The handler of request r starts: index_directory walks a directory holding
\* one file, extracts it and builds its record (the file as it is on disk at
\* that moment).
HandleStart(r, file_path, mtime, sections) ==
    LET extracted == process_extracted_data(
            [success |-> TRUE, filename |-> file_path[2],
             file_path |-> file_path, sections |-> sections], stat_of(mtime), TRUE)
    IN  /\ requests[r].pc = "pending"
        /\ loop_is_free
        /\ extracted.kind = "record"
        /\ requests' = [requests EXCEPT ![r] = [pc |-> "built", record |-> extracted]]
        /\ UNCHANGED <<sections_collection, call, result, index_vars, temp_dir>>

\* add_record, first half: sections_collection.delete(where={"resume_id": id})
HandleDelete(r) ==
    /\ requests[r].pc = "built"
    /\ sections_collection' =
            collection_delete(sections_collection, requests[r].record.id)
    /\ requests' = [requests EXCEPT ![r].pc = "deleted"]
    /\ UNCHANGED <<call, result, index_vars, temp_dir>>

\* add_record, second half: sections_collection.add(ids, documents, ...)
HandleAdd(r) ==
    /\ requests[r].pc = "deleted"
    /\ sections_collection' =
            collection_add(sections_collection, section_items(requests[r].record))
    /\ requests' = [requests EXCEPT ![r].pc = "added"]
    /\ UNCHANGED <<call, result, index_vars, temp_dir>>

\* index_directory returns and the handler responds.
HandleRespond(r) ==
    /\ requests[r].pc = "added"
    /\ requests' = [requests EXCEPT ![r].pc = "done"]
    /\ UNCHANGED <<sections_collection, call, result, index_vars, temp_dir>>

NextConcurrent ==
    \/ \E r \in Requests, file \in FileVersions, sections \in Contents :
            HandleStart(r, file.file_path, file.mtime, sections)
    \/ \E r \in Requests : HandleDelete(r)
    \/ \E r \in Requests : HandleAdd(r)
    \/ \E r \in Requests : HandleRespond(r)

SpecConcurrent == InitConcurrent /\ [][NextConcurrent]_vars

\* ------------------------------------------------ /api/match-resumes request

MaxUploads == 2

UploadNames == {"a.pdf", "b.pdf"}

\* parser.parse_file(resume_path): a text, no text, or an exception.
ParseOutcomes == {"text", "empty", "raises"}

\* The keyword parameters of ChromaDBManager.__init__.
InitParameters == {"db_path"}

\* ChromaDBManager(**kwargs): a keyword __init__ does not have is a TypeError.
ChromaDBManager_init(kwargs) ==
    IF kwargs \subseteq InitParameters THEN [kind |-> "manager"]
    ELSE Raised("TypeError")

HTTPException(status_code, detail) ==
    [kind |-> "HTTPException", status_code |-> status_code, detail |-> detail]

\* summarize_matches_with_llm_api: the text made of the reply of ollama.chat,
\* or the message of the except branch when the call or the formatting raises.
summarize_matches_with_llm_api(matches, ollama_ok) ==
    IF ollama_ok THEN "summary" ELSE "Could not generate AI summary"

rmtree_keeps_directory(dir) == [exists |-> TRUE, files |-> {}]

\* shutil.rmtree(temp_dir): the directory and everything in it.
rmtree(dir) == no_temp_dir

\* The variables match_resumes does not touch.
match_others == <<sections_collection, resume_files, outcome, pre_collection,
                  batch_ids, j, processed_records, add_log, extract_log, requests>>

\* A request: the uploaded resumes by file name; which write to the disk
\* raises (0: none, 1: that of the job description, k + 1: that of the k-th
\* resume); whether ollama answers.
InitMatch ==
    /\ requests = <<>>
    /\ temp_dir = no_temp_dir
    /\ sections_collection = {}
    /\ resume_files = <<>>
    /\ outcome = <<>>
    /\ pre_collection = {}
    /\ i = 0
    /\ batch_ids = <<>>
    /\ j = 0
    /\ processed_records = <<>>
    /\ add_log = <<>>
    /\ extract_log = <<>>
    /\ pc = "mkdtemp"
    /\ result = None
    /\ \E resumes \in lists(UploadNames, MaxUploads) :
       \E failing_write \in 0..(Len(resumes) + 1), ollama_ok \in BOOLEAN :
            call = [op |-> "match_resumes",
                    job_description |-> "jd.pdf",
                    resumes |-> resumes,
                    failing_write |-> failing_write,
                    ollama_ok |-> ollama_ok,
                    resume_full_texts |-> <<>>]

\* temp_dir = tempfile.mkdtemp()
MkDtemp ==
    /\ pc = "mkdtemp"
    /\ temp_dir' = [exists |-> TRUE, files |-> {}]
    /\ pc' = "save_job_description"
    /\ UNCHANGED <<call, result, i, match_others>>

\* The job description is written to jd_path and the directory resumes is
\* made.  A write that raises leaves the file it opened.
SaveJobDescription ==
    /\ pc = "save_job_description"
    /\ IF call.failing_write = 1
       THEN /\ temp_dir' = [temp_dir EXCEPT !.files = @ \cup {<<call.job_description>>}]
            /\ result' = Raised("OSError")
            /\ pc' = "except"
            /\ UNCHANGED i
       ELSE /\ temp_dir' = [temp_dir EXCEPT
                                !.files = @ \cup {<<call.job_description>>, <<"resumes">>}]
            /\ i' = 1
            /\ pc' = "save_resumes"
            /\ UNCHANGED result
    /\ UNCHANGED <<call, match_others>>

\* One pass of "for resume in resumes": the upload is written to resumes_dir
\* and parsed; a parser that raises or finds no text gives the text "".
SaveResume(parsed) ==
    /\ pc = "save_resumes"
    /\ i <= Len(call.resumes)
    /\ temp_dir' = [temp_dir EXCEPT !.files = @ \cup {<<"resumes", call.resumes[i]>>}]
    /\ IF call.failing_write = i + 1
       THEN /\ result' = Raised("OSError")
            /\ pc' = "except"
            /\ UNCHANGED <<call, i>>
       ELSE /\ call' = [call EXCEPT !.resume_full_texts =
                            [f \in DOMAIN @ \cup {call.resumes[i]} |->
                                IF f = call.resumes[i]
                                THEN (IF parsed = "text" THEN "text" ELSE "")
                                ELSE @[f]]]
            /\ i' = i + 1
            /\ UNCHANGED <<result, pc>>
    /\ UNCHANGED match_others

\* temp_chroma_manager = ChromaDBManager(in_memory=True, collection_name=...,
\* sections_collection_name=...).  The statements after it (index_directory,
\* the query, the reduction loop, the summary and both returns) run only with
\* a manager.
ConstructManager ==
    /\ pc = "save_resumes"
    /\ i > Len(call.resumes)
    /\ LET made == ChromaDBManager_init(
                        {"in_memory", "collection_name", "sections_collection_name"})
       IN  IF made.kind = "raise"
           THEN /\ result' = made
                /\ pc' = "except"
           ELSE /\ result' = made
                /\ pc' = "index_directory"
    /\ UNCHANGED <<call, i, temp_dir, match_others>>

\* except Exception as e: raise HTTPException(status_code=500, detail=str(e))
Except ==
    /\ pc = "except"
    /\ result' = HTTPException(500, result.error)
    /\ pc' = "finally"
    /\ UNCHANGED <<call, i, temp_dir, match_others>>

\* finally: shutil.rmtree(temp_dir); then the response goes out.
Finally ==
    /\ pc = "finally"
    /\ temp_dir' = rmtree(temp_dir)
    /\ pc' = "responded"
    /\ UNCHANGED <<call, result, i, match_others>>

NextMatch ==
    \/ MkDtemp
    \/ SaveJobDescription
    \/ \E parsed \in ParseOutcomes : SaveResume(parsed)
    \/ ConstructManager
    \/ Except
    \/ Finally

SpecMatch == InitMatch /\ [][NextMatch]_vars

\* ------------------------------------------------------------------ claims

Abs(n) == IF n < 0 THEN -n ELSE n

Indices(seq) == 1..Len(seq)

\* A query has been answered and its result is being observed.
IsQueried == call.op = "query"

\* C1: no match returned by query has match_percentage < min_similarity * 100,
\* and a neighbour whose percentage is exactly min_similarity * 100 is among
\* the matches.
C1_ThresholdFilter ==
    IsQueried =>
        /\ \A n \in Indices(result.matches) :
                ~(result.matches[n].match_percentage * 10 < call.min_similarity)
        /\ \A n \in Indices(call.neighbours) :
                LET nb == call.neighbours[n]
                IN  (\A tie \in {0, 1} :
                        match_percentage_of(nb.distance, tie) * 10 = call.min_similarity)
                    => \E m \in Indices(result.matches) :
                        /\ result.matches[m].resume_id = nb.metadata.resume_id
                        /\ result.matches[m].section_name = nb.metadata.section_name
                        /\ result.matches[m].match_percentage * 10 = call.min_similarity

\* A query that dropped a neighbour below the threshold and kept one exactly
\* at the threshold.
C1_Witness ==
    /\ IsQueried
    /\ Len(result.matches) < Len(call.neighbours)
    /\ \E n \in Indices(result.matches) :
            result.matches[n].match_percentage * 10 = call.min_similarity

matches_of(rid) == SelectSeq(result.matches, LAMBDA match : match.resume_id = rid)

RECURSIVE total_percentage(_)
total_percentage(matches) ==
    IF matches = <<>> THEN 0
    ELSE Head(matches).match_percentage + total_percentage(Tail(matches))

\* C2: for every document id with a surviving match, resume_scores[doc_id] is
\* the mean of match_percentage over all surviving matches of that document,
\* rounded to 2 decimals: a hundredth at most half a hundredth away from it.
C2_AggregationCorrectness ==
    IsQueried =>
        \A n \in Indices(result.matches) :
            LET rid == result.matches[n].resume_id
                count == Len(matches_of(rid))
                total == total_percentage(matches_of(rid))
            IN  /\ rid \in DOMAIN result.resume_scores
                /\ 2 * Abs(count * result.resume_scores[rid] - total) <= count

\* A query with two documents among the matches, one of them with three
\* surviving matches whose mean is no whole hundredth and rounds up.
C2_Witness ==
    /\ IsQueried
    /\ \E n, m \in Indices(result.matches) :
            LET rid == result.matches[n].resume_id
                total == total_percentage(matches_of(rid))
            IN  /\ result.matches[m].resume_id # rid
                /\ Len(matches_of(rid)) = 3
                /\ total % 3 = 2
                /\ result.resume_scores[rid] = (total \div 3) + 1

IsUpserted == call.op = "add_record"

items_of_filename(collection, filename) ==
    {item \in collection : item.metadata.filename = filename}

\* The collection holds the sections of db_record under its filename from an
\* earlier upsert: the same section names with the same texts.
upserted_before(collection, db_record) ==
    \E rid \in resume_ids(collection) :
        LET held == {item \in collection : item.metadata.resume_id = rid}
        IN  /\ \A item \in held : item.metadata.filename = db_record.metadata.filename
            /\ {<<item.metadata.section_name, item.document>> : item \in held}
                 = {<<name, db_record.metadata.sections[name]>> :
                        name \in DOMAIN db_record.metadata.sections}

\* C3: upserting a filename a second time with identical content leaves exactly
\* one document item and exactly one section item per non-empty section for
\* that filename.
C3_IdempotentUpsert ==
    [][(call'.op = "add_record" /\ upserted_before(sections_collection, call'.record)) =>
        LET db_record == call'.record
            filename == db_record.metadata.filename
        IN  /\ Cardinality(items_of_filename(document_collection, filename)) = 1
            /\ \A name \in DOMAIN db_record.metadata.sections :
                    Cardinality({item \in items_of_filename(sections_collection', filename) :
                                    item.metadata.section_name = name}) = 1
            /\ \A item \in items_of_filename(sections_collection', filename) :
                    item.metadata.section_name \in DOMAIN db_record.metadata.sections]_vars

\* C4: after upsert(record) the section collection holds no item of the
\* record's filename other than the items of the new record.
C4_PurgeByFilename ==
    IsUpserted =>
        items_of_filename(sections_collection, call.record.metadata.filename)
            \subseteq section_items(call.record)

\* C8: after upsert(record) the document collection holds exactly one item
\* keyed by record.id, carrying the full-text embedding; get_embedding returns
\* that embedding for an indexed id and null for an id never indexed.
C8_DocumentCollection ==
    /\ IsUpserted =>
            /\ Cardinality({item \in document_collection : item.id = call.record.id}) = 1
            /\ \A item \in document_collection :
                    item.id = call.record.id => item.embedding = call.record.embedding
    /\ call.op = "get_resume_embedding" =>
            IF \E item \in document_collection : item.id = call.resume_id
            THEN \E item \in document_collection :
                    item.id = call.resume_id /\ result = item.embedding
            ELSE result = None

MatchKeys == {"resume_id", "filename", "section_name", "match_percentage", "text"}

\* C9: every match returned by query carries the document id, filename,
\* section_name, match_percentage and text of its stored item, so the
\* best-per-document reduction keyed on match["filename"] is defined.
C9_MatchShape ==
    /\ IsQueried =>
            \A n \in Indices(result.matches) : MatchKeys \subseteq DOMAIN result.matches[n]
    /\ call.op = "best_matches" => result.kind # "raise"

\* C10: the reduction yields exactly one entry per distinct filename of the
\* list, and the entry is the first match in list order among those with the
\* highest match_percentage of that filename.
C10_BestPerDocument ==
    (call.op = "best_matches" /\ call.matches # <<>>
        /\ \A n \in Indices(call.matches) : "filename" \in DOMAIN call.matches[n]) =>
        /\ result.kind = "ok"
        /\ DOMAIN result.best_matches =
                {call.matches[n].filename : n \in Indices(call.matches)}
        /\ \A fname \in DOMAIN result.best_matches :
                \E n \in Indices(call.matches) :
                    /\ result.best_matches[fname] = call.matches[n]
                    /\ call.matches[n].filename = fname
                    /\ \A m \in Indices(call.matches) :
                            call.matches[m].filename = fname =>
                                /\ call.matches[m].match_percentage
                                        <= call.matches[n].match_percentage
                                /\ (call.matches[m].match_percentage
                                        = call.matches[n].match_percentage => n <= m)

\* A list with two filenames in which the best percentage of one filename
\* occurs twice, in different sections: the earlier one is kept.
C10_Witness ==
    /\ call.op = "best_matches"
    /\ result.kind = "ok"
    /\ Cardinality(DOMAIN result.best_matches) = 2
    /\ \E n, m \in Indices(call.matches) :
            /\ n < m
            /\ call.matches[n].filename = call.matches[m].filename
            /\ call.matches[n].match_percentage = call.matches[m].match_percentage
            /\ call.matches[n].section_name # call.matches[m].section_name
            /\ result.best_matches[call.matches[n].filename] = call.matches[n]

\* The files of the run whose extraction succeeded and whose record was built.
built_files == {k \in 1..Len(resume_files) : build_record(k, outcome[k]).kind = "record"}

\* C5: when index_directory returns, every supported file whose extraction
\* succeeded and whose record was built has its section items in the store.
C5_IndexingCompleteness ==
    pc = "returned" =>
        \A k \in built_files :
            section_items(build_record(k, outcome[k])) \subseteq sections_collection

\* C6: a failure on one file at any stage is caught at that file's boundary:
\* index_directory never ends by raising.
C6_PerFileFailureTolerance == pc # "raised"

\* C7: a file whose computed record id already has an item in the store is
\* skipped: no upsert is performed for it in that run.
C7_DuplicateSkip ==
    \A n \in Indices(add_log) : add_log[n] \notin resume_ids(pre_collection)

\* No neighbour of the answered query reaches the threshold (none at all when
\* the store returned nothing).
all_below_threshold ==
    \A n \in Indices(call.neighbours), tie \in {0, 1} :
        match_percentage_of(call.neighbours[n].distance, tie) * 10 < call.min_similarity

\* C11: when the store returns no neighbours, or every neighbour is below the
\* threshold, query returns matches = [] and resume_scores = {} and raises
\* nothing.
C11_EmptyResult ==
    (IsQueried /\ all_below_threshold) =>
        /\ "kind" \notin DOMAIN result
        /\ result.matches = <<>>
        /\ result.resume_scores = <<>>

\* A query whose neighbours, of two documents, are all below the threshold.
C11_Witness ==
    /\ IsQueried
    /\ all_below_threshold
    /\ \E n, m \in Indices(call.neighbours) :
            call.neighbours[n].metadata.resume_id # call.neighbours[m].metadata.resume_id
    /\ result.matches = <<>>
    /\ result.resume_scores = <<>>

\* The names of WalkedFiles that end, lower-cased, with .pdf, .docx or .doc.
allowed_names == {"a.pdf", "B.DOCX", "c.Doc"}

allowed_files == SelectSeq(call.files, LAMBDA file : file[2] \in allowed_names)

\* C12: index_directory extracts, embeds and upserts only files whose name,
\* lower-cased, ends with .pdf, .docx or .doc (resume_files, the only files it
\* extracts or reports, is the walked tree without the other files), and on
\* return exactly the allowed files have been upserted.
C12_ExtensionAllowList ==
    /\ \A n \in Indices(resume_files) : resume_files[n][2] \in allowed_names
    /\ pc # "walk" => resume_files = allowed_files
    /\ \A item \in sections_collection : item.metadata.filename \in allowed_names
    /\ pc = "returned" =>
            /\ Len(add_log) = Len(allowed_files)
            /\ {item.metadata.filename : item \in sections_collection}
                    = {allowed_files[n][2] : n \in Indices(allowed_files)}

\* Three files walked, one of them d.pdf.bak and one B.DOCX: two upserted.
C12_Witness ==
    /\ pc = "returned"
    /\ Len(call.files) = 3
    /\ \E n, m \in Indices(call.files) :
            call.files[n][2] = "d.pdf.bak" /\ call.files[m][2] = "B.DOCX"
    /\ Len(add_log) = 2
    /\ Cardinality(resume_ids(sections_collection)) = 2

IsBuilt == call.op = "process_extracted_data"

\* success is false, or every section text is empty after trimming.
no_content(extracted_data) ==
    \/ ~extracted_data.success
    \/ \A name \in DOMAIN extracted_data.sections :
            strip(extracted_data.sections[name]) = <<>>

\* C13: process_extracted_data returns null exactly when success is false or
\* every section text is empty after trimming, also when the file cannot be
\* stat'ed, and returns a record in every other case (the file stat'ed and the
\* text encoded).
C13_BuilderFailureConditions ==
    IsBuilt =>
        /\ no_content(call.extracted_data) => result = None
        /\ result = None => no_content(call.extracted_data)
        /\ (~no_content(call.extracted_data) /\ call.stat.exists /\ call.encoder_ok)
                => result.kind = "record"

\* C14: two runs of the record builder on the same filename, file path and
\* mtime give the same id, whatever the sections hold.
C14_DeterministicId ==
    (/\ IsBuilt
     /\ call.previous # None
     /\ result.kind = "record"
     /\ call.previous.result.kind = "record"
     /\ call.previous.extracted_data.filename = call.extracted_data.filename
     /\ call.previous.extracted_data.file_path = call.extracted_data.file_path
     /\ call.previous.stat.mtime = call.stat.mtime)
        => result.id = call.previous.result.id

\* Two runs on the same file and mtime with different section texts.
C14_Witness ==
    /\ IsBuilt
    /\ call.previous # None
    /\ result.kind = "record"
    /\ call.previous.result.kind = "record"
    /\ call.previous.extracted_data.file_path = call.extracted_data.file_path
    /\ call.previous.stat = call.stat
    /\ call.previous.extracted_data.sections # call.extracted_data.sections
    /\ call.previous.result.embedding # result.embedding
    /\ result.id = call.previous.result.id

\* C15: match_percentage is (1 - distance) * 100 rounded to 2 decimals (at most
\* half a hundredth away from it), and of two distances the smaller one never
\* gets the smaller match_percentage.
C15_SimilarityMonotonicity ==
    call.op = "match_percentage" =>
        /\ 2 * Abs(10 * result.match_percentage - (100000 - call.distance)) <= 10
        /\ (call.previous # None /\ call.distance < call.previous.distance)
                => result.match_percentage >= call.previous.match_percentage
        /\ (call.previous # None /\ call.distance > call.previous.distance)
                => result.match_percentage <= call.previous.match_percentage

\* A distance half way between two hundredths, rounded down, after a larger
\* distance that rounds to the same hundredth.
C15_Witness ==
    /\ call.op = "match_percentage"
    /\ call.previous # None
    /\ call.distance < call.previous.distance
    /\ (100000 - call.distance) % 10 = 5
    /\ result.match_percentage = call.previous.match_percentage

\* Two requests are inside the delete-then-insert pair of an upsert of the
\* same filename at once.
upserts_interleave ==
    \E r, q \in Requests :
        /\ r # q
        /\ in_handler(r)
        /\ in_handler(q)
        /\ requests[r].record.metadata.filename = requests[q].record.metadata.filename

\* The items of a filename come from one upsert: one document id, and one
\* item per section.
single_upsert_per_filename ==
    \A item, other \in sections_collection :
        item.metadata.filename = other.metadata.filename =>
            /\ item.metadata.resume_id = other.metadata.resume_id
            /\ (item.metadata.section_name = other.metadata.section_name
                    => item = other)

\* C16: with several index requests on the same store, the delete-then-insert
\* pairs of two upserts of the same filename never interleave, and no state
\* (between upserts) has stale or duplicate section items for a filename.
C16_SerializedUpserts ==
    /\ ~upserts_interleave
    /\ loop_is_free => single_upsert_per_filename

\* The pairs never interleave (the part of C16 that holds).
C16_NoInterleaving == ~upserts_interleave

IsSectionized == call.op \in {"sectionize", "resectionize"}

\* The non-blank lines of a text, trimmed, in their order.
trimmed_lines(text) ==
    LET ls == split_lines(text, "")
    IN  SelectSeq([n \in 1..Len(ls) |-> str_strip(ls[n])], LAMBDA l : l # "")

groups_called == IF call.SECTIONIZER_AVAILABLE THEN ExternalGroups ELSE LocalGroups

catch_all == IF call.SECTIONIZER_AVAILABLE THEN "other" ELSE "others"

ClaimedPriority == <<"contact_info", "summary", "skills", "experience",
                     "education", "projects", "certifications">>

\* The group a line belongs to when the first group in the order contact >
\* summary > skills > experience > education > projects > certifications
\* with a keyword in the line wins; "none" for a line without keyword.
claimed_group(line) ==
    LET hits == {n \in 1..Len(ClaimedPriority) :
                    \E g \in 1..Len(groups_called) :
                        /\ groups_called[g].section = ClaimedPriority[n]
                        /\ any_keyword(groups_called[g], lower(line))}
    IN  IF hits = {} THEN "none"
        ELSE ClaimedPriority[CHOOSE n \in hits : \A m \in hits : n <= m]

\* The group the sectionizer called takes a line for; "none" without keyword.
own_group(line) == switch(groups_called, lower(line), "none")

\* The lines a section holds when every non-blank line goes to the group of
\* the last line at or before it that has a group, else to the catch-all.
sticky_lines(section, group_of(_)) ==
    LET ls == trimmed_lines(call.text)
        selected(n) ==
            LET hits == {m \in 1..n : group_of(ls[m]) # "none"}
            IN  IF hits = {} THEN catch_all
                ELSE group_of(ls[CHOOSE m \in hits : \A k \in hits : k <= m])
        placed == SelectSeq([n \in 1..Len(ls) |-> [line |-> ls[n], section |-> selected(n)]],
                            LAMBDA p : p.section = section)
    IN  [n \in 1..Len(placed) |-> placed[n].line]

\* C18: in the sectionizer extract_document_structured calls, a line with
\* keywords of several groups switches the current section to the first
\* matching group in the order contact > summary > skills > experience >
\* education > projects > certifications.
C18_SectionizerPriority ==
    IsSectionized =>
        \A section \in DOMAIN result.sections :
            trimmed_lines(result.sections[section]) = sticky_lines(section, claimed_group)

\* C19: every non-blank line is appended to the section selected by the most
\* recent keyword-matching line at or before it, or to the catch-all bucket
\* when no line so far matched; a text without keyword ends with all its
\* content in the catch-all bucket and every other section empty.
C19_StickySwitching ==
    IsSectionized =>
        /\ \A section \in DOMAIN result.sections :
                trimmed_lines(result.sections[section]) = sticky_lines(section, own_group)
        /\ (\A n \in Indices(trimmed_lines(call.text)) :
                own_group(trimmed_lines(call.text)[n]) = "none")
            => /\ trimmed_lines(result.sections[catch_all]) = trimmed_lines(call.text)
               /\ \A section \in DOMAIN result.sections \ {catch_all} :
                        result.sections[section] = ""

\* A line without keyword before the first header, and one after a header:
\* the first in the catch-all bucket, the second in the header's section.
C19_Witness ==
    /\ call.op = "sectionize"
    /\ call.text = " Python \nSkills\n Python "
    /\ result.sections[catch_all] = "Python"
    /\ result.sections["skills"] = "Skills\n Python"

count(line, ls) == Cardinality({n \in 1..Len(ls) : ls[n] = line})

\* The lines of all sections, section after section.
RECURSIVE all_lines(_, _)
all_lines(sections, vocabulary) ==
    IF vocabulary = <<>> THEN <<>>
    ELSE trimmed_lines(sections[Head(vocabulary)])
            \o all_lines(sections, Tail(vocabulary))

\* a is b without some of its elements
RECURSIVE is_subsequence(_, _)
is_subsequence(a, b) ==
    IF a = <<>> THEN TRUE
    ELSE IF b = <<>> THEN FALSE
    ELSE IF Head(a) = Head(b) THEN is_subsequence(Tail(a), Tail(b))
    ELSE is_subsequence(a, Tail(b))

same_lines(ls, ms) ==
    \A line \in {ls[n] : n \in 1..Len(ls)} \cup {ms[n] : n \in 1..Len(ms)} :
        count(line, ls) = count(line, ms)

\* C20: each non-blank line of the input is in exactly one output section,
\* the lines of a section are in input order and nothing else is added; the
\* sectionizer run again on its joined non-empty outputs returns the same
\* multiset of lines.
C20_NoContentLost ==
    IsSectionized =>
        LET vocabulary == vocabulary_of(call.SECTIONIZER_AVAILABLE)
        IN  /\ same_lines(all_lines(result.sections, vocabulary), trimmed_lines(call.text))
            /\ \A section \in DOMAIN result.sections :
                    is_subsequence(trimmed_lines(result.sections[section]),
                                   trimmed_lines(call.text))
            /\ call.op = "resectionize" =>
                    same_lines(all_lines(result.sections, vocabulary),
                               all_lines(call.previous, vocabulary))

\* A second run that moved a line to another section and lost none: three
\* lines, one of them twice.
C20_Witness ==
    /\ call.op = "resectionize"
    /\ result.sections # call.previous
    /\ Len(trimmed_lines(call.text)) = 3
    /\ \E line \in {"Python", "Skills", "Work"} :
            count(line, trimmed_lines(call.text)) = 2
    /\ same_lines(all_lines(result.sections, vocabulary_of(call.SECTIONIZER_AVAILABLE)),
                  trimmed_lines(call.text))

\* The trimmed texts of the sections that have any, in section order.
nonempty_texts(sections) ==
    SelectSeq([n \in 1..Len(SectionOrder) |-> strip(sections[SectionOrder[n]])],
              LAMBDA t : t # <<>>)

\* C21: the record's full_text is exactly the non-empty, trimmed section texts
\* joined by a single newline in section order; an empty or whitespace-only
\* section contributes nothing to it.
C21_FullTextConstruction ==
    (IsBuilt /\ result.kind = "record") =>
        result.metadata.full_text
            = join(<<"\n">>, nonempty_texts(call.extracted_data.sections))

\* The names of the sections whose trimmed text is not empty.
nonempty_names(sections) ==
    {name \in DOMAIN sections : strip(sections[name]) # <<>>}

\* C22: the record's sections and section_embeddings have the same key set,
\* the names of the sections whose trimmed text is not empty; after any
\* sequence of upserts no stored section item has an empty or whitespace-only
\* text.
C22_EmptySectionsNeverStored ==
    /\ IsUpserted =>
            /\ DOMAIN call.record.metadata.sections = nonempty_names(call.sections)
            /\ DOMAIN call.record.metadata.section_embeddings
                    = nonempty_names(call.sections)
    /\ \A item \in sections_collection : strip(item.document) # <<>>

\* A document with a whitespace-only and an empty section was upserted after
\* another; only its section with text is stored under its id.
C22_Witness ==
    /\ IsUpserted
    /\ \E name \in DOMAIN call.sections : call.sections[name] = <<" ">>
    /\ \E name \in DOMAIN call.sections : call.sections[name] = <<>>
    /\ Cardinality({item \in sections_collection :
                        item.metadata.resume_id = call.record.id}) = 1
    /\ Cardinality(resume_ids(sections_collection)) > 1

\* C23: every stored section item is keyed by its resume_id and section_name,
\* no two stored items have the same resume_id and section_name, and the id
\* that query rebuilds for a match is the key of the stored item the match
\* came from.
C23_SectionItemKey ==
    /\ \A item \in sections_collection :
            item.id = <<item.metadata.resume_id, item.metadata.section_name>>
    /\ \A a, b \in sections_collection :
            (/\ a.metadata.resume_id = b.metadata.resume_id
             /\ a.metadata.section_name = b.metadata.section_name) => a = b
    /\ IsQueried =>
            \A n \in 1..Len(result.matches) :
                \E item \in sections_collection :
                    /\ item.id = result.matches[n].id
                    /\ item.document = result.matches[n].text
                    /\ item.metadata.resume_id = result.matches[n].resume_id
                    /\ item.metadata.section_name = result.matches[n].section_name

\* After a record was upserted over another of the same id whose delete had
\* raised, a query returned two sections of it, under different keys.
C23_Witness ==
    /\ IsQueried
    /\ \E m, n \in 1..Len(result.matches) :
            /\ result.matches[m].resume_id = result.matches[n].resume_id
            /\ result.matches[m].id # result.matches[n].id
    /\ \E item \in sections_collection, m \in 1..Len(result.matches) :
            /\ item.document = <<"w">>
            /\ result.matches[m].text = <<"y">>
            /\ result.matches[m].resume_id = item.metadata.resume_id

\* C26: when the delete before the insert fails (nothing is stored under the
\* document yet, or the store's delete raises), add_record swallows the failure
\* and the collection then holds every non-empty section item of the record;
\* the upsert ends without an error.
C26_SwallowedDeleteFailure ==
    IsUpserted =>
        /\ section_items(call.record) \subseteq sections_collection
        /\ result = None

\* The keys of the neighbours that are among the matches, in the order the
\* collection ranked them.
ranked_keys(neighbours, matches) ==
    LET keys == [n \in 1..Len(neighbours) |->
                    <<neighbours[n].metadata.resume_id,
                      neighbours[n].metadata.section_name>>]
    IN  SelectSeq(keys, LAMBDA k : \E m \in 1..Len(matches) : matches[m].id = k)

\* C24: query reads the section collection only and returns at most top_k
\* matches; the matches keep the ranking of the collection, so their
\* match_percentage never increases along the list.
C24_QueryBoundAndOrder ==
    IsQueried =>
        /\ Len(result.matches) <= call.top_k
        /\ \A n \in 1..Len(result.matches) :
                \E item \in sections_collection :
                    /\ item.id = result.matches[n].id
                    /\ item.document = result.matches[n].text
        /\ [n \in 1..Len(result.matches) |-> result.matches[n].id]
                = ranked_keys(call.neighbours, result.matches)
        /\ \A n \in 1..(Len(result.matches) - 1) :
                result.matches[n].match_percentage
                    >= result.matches[n + 1].match_percentage

\* A query with top_k below the number of stored items returned top_k matches
\* whose first and last percentage differ.
C24_Witness ==
    /\ IsQueried
    /\ call.top_k >= 2
    /\ Len(result.matches) = call.top_k
    /\ Cardinality(sections_collection) > call.top_k
    /\ result.matches[1].match_percentage
            > result.matches[Len(result.matches)].match_percentage

\* C25: a run of process_extracted_data that returns a record has called
\* model.encode N + 1 times for N non-empty sections, once with the full text
\* and once with each non-empty section text; a run that returns null has
\* not called it.
C25_EmbeddingCallCount ==
    IsBuilt =>
        /\ result.kind = "record" =>
                /\ Len(call.encoded)
                        = Cardinality(nonempty_names(call.extracted_data.sections)) + 1
                /\ call.encoded[1] = result.metadata.full_text
                /\ {call.encoded[n] : n \in 2..Len(call.encoded)}
                        = {result.metadata.sections[name] :
                                name \in DOMAIN result.metadata.sections}
        /\ result = None => call.encoded = <<>>

\* A document with one non-empty section of three was built with two calls,
\* after a run that returned null.
C25_Witness ==
    /\ IsBuilt
    /\ result.kind = "record"
    /\ Cardinality(nonempty_names(call.extracted_data.sections)) = 1
    /\ Len(call.encoded) = 2
    /\ call.previous # None
    /\ call.previous.result = None

\* The match percentages of the matches of one resume.
percentages_of(matches, rid) ==
    {matches[n].match_percentage :
        n \in {m \in 1..Len(matches) : matches[m].resume_id = rid}}

\* C29: the keys of resume_scores are exactly the resume_ids that occur in
\* matches, and the score of each lies between the smallest and the largest
\* match_percentage of that resume's matches.
C29_ScoreKeySet ==
    IsQueried =>
        /\ DOMAIN result.resume_scores
                = {result.matches[n].resume_id : n \in 1..Len(result.matches)}
        /\ \A rid \in DOMAIN result.resume_scores :
                /\ \E p \in percentages_of(result.matches, rid) :
                        p <= result.resume_scores[rid]
                /\ \E p \in percentages_of(result.matches, rid) :
                        p >= result.resume_scores[rid]

\* Two resumes were matched, one of them with two different percentages and a
\* score strictly between them, while a neighbour below the threshold was
\* left out.
C29_Witness ==
    /\ IsQueried
    /\ Cardinality(DOMAIN result.resume_scores) = 2
    /\ Len(result.matches) < Len(call.neighbours)
    /\ \E rid \in DOMAIN result.resume_scores :
            /\ \E p \in percentages_of(result.matches, rid) :
                    p < result.resume_scores[rid]
            /\ \E p \in percentages_of(result.matches, rid) :
                    p > result.resume_scores[rid]

\* No entry occurs twice in the log.
no_repeats(log) ==
    \A m, n \in Indices(log) : m # n => log[m] # log[n]

\* The files process_extracted_data was called on, in call order: those
\* whose extraction reported success.
build_log ==
    SelectSeq(extract_log, LAMBDA k : outcome[k] # "extract_failed")

\* C28: in one run of index_directory no file is extracted twice, built twice
\* or handed to add_record twice, whether the files are fewer than
\* batch_size, exactly batch_size or more.
C28_NoRepeatedWork ==
    /\ no_repeats(extract_log)
    /\ no_repeats(build_log)
    /\ no_repeats(add_log)

\* C27: when the LLM call fails, summarize_matches_with_llm_api returns its
\* placeholder message instead of raising, and match_resumes responds with the
\* matches it computed together with that message.
C27_SummarizationFailureNotFatal ==
    (pc = "responded" /\ call.failing_write = 0 /\ ~call.ollama_ok) =>
        /\ result.kind = "response"
        /\ result.summary = summarize_matches_with_llm_api(result.matches, FALSE)

\* C30: on every way out of match_resumes after the temporary directory was
\* created, the directory and what was written into it are gone.
C30_TemporaryDirectoryCleanup ==
    /\ pc = "responded" => temp_dir = no_temp_dir
    /\ temp_dir.exists => pc \notin {"mkdtemp", "responded"}

\* A request with two resumes wrote its files and ended with an error
\* response; the directory is gone.
C30_Witness ==
    /\ pc = "responded"
    /\ result.kind = "HTTPException"
    /\ DOMAIN call.resume_full_texts = UploadNames
    /\ ~temp_dir.exists

====
